---- MODULE Spec2Model ----
(***************************************************************************)
(* A model of DCCheckerMILP (src/dc_milp.py): the normalisation of a       *)
(* temporal network (preprocess_network), the allocation of the MILP       *)
(* variables (add_variables_to_model), the emission of the eight families  *)
(* of linear constraints (add_constraints_to_model) and the reading of     *)
(* the solver's status (solve_dc, is_controllable).                        *)
(*                                                                         *)
(* Events are Python strings; a constraint is a record                     *)
(*   [s, e, lb, ub, ctg, id]                                               *)
(* where lb and ub are <<>> (None) or <<v>>, ctg says that the object is a *)
(* SimpleContingentTemporalConstraint and id is the object's identity.     *)
(* A linear constraint of the MILP is a record [name, key, lhs, op, rhs]   *)
(* whose two sides are linear expressions [terms, const] over the          *)
(* variables <<"u",i,j>>, <<"w",i,j,k>>, <<"x",i,j,k>>, <<"b",i,j,k>>.     *)
(***************************************************************************)
EXTENDS Integers, Sequences, FiniteSets, TLC

\* self.MAX_NUMERIC_BOUND
MAX_NUMERIC_BOUND == 100000

\* The largest number of constraints of an input network.
MaxConstraints == 2

\* Candidate values of the continuous variables are the integers of
\* -GridBound..GridBound (a sample of [-MAX_NUMERIC_BOUND, MAX_NUMERIC_BOUND]).
GridBound == 10

(***************************************************************************)
(* Python values                                                           *)
(***************************************************************************)
None == <<>>

Some(v) == <<v>>

Digits == <<"0", "1", "2", "3", "4", "5", "6", "7", "8", "9">>

\* str(num) of a non-negative integer
RECURSIVE str(_)
str(num) ==
  IF num < 10 THEN Digits[num + 1]
  ELSE str(num \div 10) \o Digits[(num % 10) + 1]

SimpleTemporalConstraint(s, e, lb, ub, id) ==
  [s |-> s, e |-> e, lb |-> lb, ub |-> ub, ctg |-> FALSE, id |-> id]

SimpleContingentTemporalConstraint(s, e, lb, ub, id) ==
  [s |-> s, e |-> e, lb |-> lb, ub |-> ub, ctg |-> TRUE, id |-> id]

\* The positions of a sequence, in the order the loops of the source run
\* over it.
Indices(seq) == 1..Len(seq)

\* The elements of a sequence, as a set.
Range(seq) == {seq[i] : i \in Indices(seq)}

(***************************************************************************)
(* TemporalNetwork (temporal_network.py, not part of src/): an ordered     *)
(* collection of constraints; its events are the end points of its         *)
(* constraints.                                                            *)
(***************************************************************************)
\* get_constraints(): the constraints in insertion order
get_constraints(network) == network

\* add_constraint(c)
add_constraint(network, c) == Append(network, c)

\* add_constraints(cs)
add_constraints(network, cs) == network \o cs

\* The end points of the constraints in order of first appearance.
RECURSIVE EventList(_, _, _)
EventList(network, i, acc) ==
  IF i > Len(network) THEN acc
  ELSE LET c == network[i]
           a1 == IF c.s \in Range(acc) THEN acc ELSE Append(acc, c.s)
           a2 == IF c.e \in Range(a1) THEN a1 ELSE Append(a1, c.e)
       IN EventList(network, i + 1, a2)

Reverse(seq) == [i \in Indices(seq) |-> seq[Len(seq) + 1 - i]]

\* get_events(): the events, in one of the iteration orders of the
\* network's event table (rev chooses the order).
get_events(network, rev) ==
  IF rev THEN Reverse(EventList(network, 1, <<>>))
  ELSE EventList(network, 1, <<>>)

(***************************************************************************)
(* preprocess_network                                                      *)
(***************************************************************************)
\* First loop: uncontrollable_to_num_contingent[c.e] = 1
uncontrollable_to_num_contingent(constraints) ==
  [ev \in {constraints[i].e : i \in {j \in Indices(constraints) : constraints[j].ctg}}
     |-> 1]

\* The copy of a source event: c.s + str(num_contingent)
source_copy(c, num_contingent) == c.s \o str(num_contingent)

\* The two constraints that replace a contingent constraint whose source is
\* copied: [equality, new_c]
CopyConstraints(c, num_contingent) ==
  << SimpleTemporalConstraint(c.s, source_copy(c, num_contingent), Some(0), Some(0),
                              <<"equality", c.id[2]>>),
     SimpleContingentTemporalConstraint(source_copy(c, num_contingent), c.e, c.lb, c.ub,
                              <<"new_c", c.id[2]>>) >>

\* Second loop, from constraint i on; u2n and s2n are the two counters
\* tables, network the network built so far.
RECURSIVE PreprocessLoop(_, _, _, _, _)
PreprocessLoop(constraints, i, u2n, s2n, network) ==
  IF i > Len(constraints) THEN network
  ELSE
    LET c == constraints[i] IN
    IF c.ctg
    THEN IF c.s \in DOMAIN u2n
         THEN PreprocessLoop(constraints, i + 1,
                             [u2n EXCEPT ![c.s] = u2n[c.s] + 1], s2n,
                             add_constraints(network, CopyConstraints(c, u2n[c.s])))
         ELSE IF c.s \in DOMAIN s2n
              THEN PreprocessLoop(constraints, i + 1, u2n,
                                  [s2n EXCEPT ![c.s] = s2n[c.s] + 1],
                                  add_constraints(network, CopyConstraints(c, s2n[c.s])))
              ELSE PreprocessLoop(constraints, i + 1, u2n,
                                  (c.s :> 1) @@ s2n,
                                  add_constraint(network, c))
    ELSE PreprocessLoop(constraints, i + 1, u2n, s2n, add_constraint(network, c))

\* preprocess_network(tn): what is added to the new network, in order.
preprocess_network(tn) ==
  PreprocessLoop(get_constraints(tn), 1,
                 uncontrollable_to_num_contingent(get_constraints(tn)),
                 <<>>, <<>>)

(***************************************************************************)
(* add_variables_to_model                                                  *)
(***************************************************************************)
\* The concatenation of a sequence of sequences.
RECURSIVE Concat(_)
Concat(seqs) == IF seqs = <<>> THEN <<>> ELSE Head(seqs) \o Concat(Tail(seqs))

\* The keys of a dict filled in the order of a sequence of keys: a key set
\* twice keeps its first position.
RECURSIVE DictKeys(_, _, _)
DictKeys(seq, i, acc) ==
  IF i > Len(seq) THEN acc
  ELSE DictKeys(seq, i + 1, IF seq[i] \in Range(acc) THEN acc ELSE Append(acc, seq[i]))

\* self.u: (vi, vj) for vi in events for vj in events if not vi == vj
UKeys(events) ==
  DictKeys(Concat([i \in Indices(events) |->
             Concat([j \in Indices(events) |->
               IF events[i] # events[j] THEN << <<events[i], events[j]>> >> ELSE <<>>])]),
           1, <<>>)

\* self.w, self.x, self.b: (c.s, vj, c.e) for every contingent c and every
\* event vj other than c.s and c.e
WKeys(constraints, events) ==
  DictKeys(Concat([n \in Indices(constraints) |->
             IF constraints[n].ctg
             THEN Concat([j \in Indices(events) |->
                    IF events[j] # constraints[n].s /\ events[j] # constraints[n].e
                    THEN << <<constraints[n].s, events[j], constraints[n].e>> >>
                    ELSE <<>>])
             ELSE <<>>]),
           1, <<>>)

\* The solver's variables
U(vi, vj) == <<"u", vi, vj>>

W(vi, vj, vk) == <<"w", vi, vj, vk>>

X(vi, vj, vk) == <<"x", vi, vj, vk>>

B(vi, vj, vk) == <<"b", vi, vj, vk>>

(***************************************************************************)
(* add_constraints_to_model                                                *)
(***************************************************************************)
\* A linear expression: the sum of coef * variable over terms, plus const.
Lin(terms, const) == [terms |-> terms, const |-> const]

\* m.addConstr(lhs op rhs, name)
Constr(name, key, lhs, op, rhs) ==
  [name |-> name, key |-> key, lhs |-> lhs, op |-> op, rhs |-> rhs]

\* An exception raised in the middle of an emission.
Raise(kind) == [raise |-> kind]

IsRaise(item) == "raise" \in DOMAIN item

\* Non-negative cycle constraints: the loop over self.u with its visited table.
\* (a slip: the reversed pair is not looked up)
NonnegVisitedOneWay(vi, vj, visited) == <<vi, vj>> \notin visited

\* not (vi, vj) in visited and not (vj, vi) in visited
NonnegVisited(vi, vj, visited) == <<vi, vj>> \notin visited /\ <<vj, vi>> \notin visited

RECURSIVE NonnegLoop(_, _, _, _)
NonnegLoop(ukeys, i, visited, out) ==
  IF i > Len(ukeys) THEN out
  ELSE LET vi == ukeys[i][1]
           vj == ukeys[i][2]
       IN IF NonnegVisited(vi, vj, visited)
          THEN NonnegLoop(ukeys, i + 1, visited \cup {<<vi, vj>>},
                 Append(out,
                   IF <<vj, vi>> \in Range(ukeys)
                   THEN Constr("nonneg", <<vi, vj>>,
                               Lin(<< <<1, U(vi, vj)>>, <<1, U(vj, vi)>> >>, 0), ">=",
                               Lin(<<>>, 0))
                   ELSE Raise("KeyError")))
          ELSE NonnegLoop(ukeys, i + 1, visited, out)

NonnegFamily(ukeys) == NonnegLoop(ukeys, 1, {}, <<>>)

\* (1), (2) Bounds of one constraint
\* (a slip: the two constraints that make a contingent link rigid are left out)
ContingentBoundsDropped(c) == <<>>

\* if contingent, uij = Uij, lij = Lij
ContingentBounds(c) ==
  << Constr("u >= U", <<c.s, c.e>>, Lin(<< <<1, U(c.s, c.e)>> >>, 0), ">=",
            Lin(<<>>, c.ub[1])),
     Constr("u >= -L", <<c.e, c.s>>, Lin(<< <<1, U(c.e, c.s)>> >>, 0), ">=",
            Lin(<<>>, -c.lb[1])) >>

\* (a slip: the upper bound is negated as the lower bound is)
BoundsOfSignSlip(c, ukeys) ==
  IF <<c.s, c.e>> \notin Range(ukeys) \/ <<c.e, c.s>> \notin Range(ukeys)
  THEN << Raise("KeyError") >>
  ELSE (IF c.ub # None
        THEN << Constr("upperbound", <<c.s, c.e>>, Lin(<< <<1, U(c.s, c.e)>> >>, 0), "<=",
                       Lin(<<>>, -c.ub[1])) >>
        ELSE <<>>)
       \o
       (IF c.lb # None
        THEN << Constr("lowerbound", <<c.e, c.s>>, Lin(<< <<1, U(c.e, c.s)>> >>, 0), "<=",
                       Lin(<<>>, -c.lb[1])) >>
        ELSE <<>>)
       \o
       (IF c.ctg THEN ContingentBounds(c) ELSE <<>>)

BoundsOf(c, ukeys) ==
  IF <<c.s, c.e>> \notin Range(ukeys) \/ <<c.e, c.s>> \notin Range(ukeys)
  THEN << Raise("KeyError") >>
  ELSE (IF c.ub # None
        THEN << Constr("upperbound", <<c.s, c.e>>, Lin(<< <<1, U(c.s, c.e)>> >>, 0), "<=",
                       Lin(<<>>, c.ub[1])) >>
        ELSE <<>>)
       \o
       (IF c.lb # None
        THEN << Constr("lowerbound", <<c.e, c.s>>, Lin(<< <<1, U(c.e, c.s)>> >>, 0), "<=",
                       Lin(<<>>, -c.lb[1])) >>
        ELSE <<>>)
       \o
       (IF c.ctg THEN ContingentBounds(c) ELSE <<>>)

BoundsFamily(constraints, ukeys) ==
  Concat([n \in Indices(constraints) |-> BoundsOf(constraints[n], ukeys)])

\* (3) Shortest path constraints
ShortestPathFamily(events, ukeys) ==
  Concat([i \in Indices(events) |->
    Concat([j \in Indices(events) |->
      Concat([k \in Indices(events) |->
        LET vi == events[i]
            vj == events[j]
            vk == events[k]
        IN IF vi # vj /\ vi # vk /\ vj # vk
           THEN IF {<<vi, vj>>, <<vj, vk>>, <<vi, vk>>} \subseteq Range(ukeys)
                THEN << Constr("shortestpath", <<vi, vj, vk>>,
                               Lin(<< <<1, U(vi, vk)>> >>, 0), "<=",
                               Lin(<< <<1, U(vi, vj)>>, <<1, U(vj, vk)>> >>, 0)) >>
                ELSE << Raise("KeyError") >>
           ELSE <<>>])])])

\* The six u variables that the precede and wait families look up for a
\* triple are all in self.u.
TripleInU(vi, vj, vk, ukeys) ==
  {<<vi, vj>>, <<vj, vi>>, <<vi, vk>>, <<vk, vi>>, <<vj, vk>>, <<vk, vj>>}
    \subseteq Range(ukeys)

\* (4) Precede constraints of one key of self.b
PrecedeOf(vi, vj, vk, ukeys) ==
  IF ~TripleInU(vi, vj, vk, ukeys) THEN << Raise("KeyError") >>
  ELSE
  << Constr("precede-b0", <<vi, vj, vk>>,
            Lin(<< <<1, U(vk, vj)>>, <<MAX_NUMERIC_BOUND, B(vi, vj, vk)>> >>, 0), ">=",
            Lin(<<>>, 0)),
     Constr("precede-b1-a", <<vi, vj, vk>>,
            Lin(<< <<1, U(vi, vj)>>, <<MAX_NUMERIC_BOUND, B(vi, vj, vk)>> >>,
                -MAX_NUMERIC_BOUND), "<=",
            Lin(<< <<-1, U(vk, vi)>>, <<1, U(vk, vj)>> >>, 0)),
     Constr("precede-b1-b", <<vi, vj, vk>>,
            Lin(<< <<-1, U(vj, vi)>>, <<-MAX_NUMERIC_BOUND, B(vi, vj, vk)>> >>,
                MAX_NUMERIC_BOUND), ">=",
            Lin(<< <<1, U(vi, vk)>>, <<-1, U(vj, vk)>> >>, 0)) >>

PrecedeFamily(bkeys, ukeys) ==
  Concat([n \in Indices(bkeys) |->
            PrecedeOf(bkeys[n][1], bkeys[n][2], bkeys[n][3], ukeys)])

\* (5), (6) Wait constraints of one key of self.w
WaitOf(vi, vj, vk, ukeys, xkeys) ==
  IF ~TripleInU(vi, vj, vk, ukeys) \/ <<vi, vj, vk>> \notin Range(xkeys)
  THEN << Raise("KeyError") >>
  ELSE
  << Constr("wait", <<vi, vj, vk>>,
            Lin(<< <<1, U(vi, vk)>>, <<-1, U(vj, vk)>> >>, 0), "<=",
            Lin(<< <<1, W(vi, vj, vk)>> >>, 0)),
     Constr("wait<ub", <<vi, vj, vk>>,
            Lin(<< <<1, W(vi, vj, vk)>> >>, 0), "<=",
            Lin(<< <<1, U(vi, vj)>> >>, 0)),
     Constr("waitcond0", <<vi, vj, vk>>,
            Lin(<< <<1, U(vj, vi)>>, <<-MAX_NUMERIC_BOUND, X(vi, vj, vk)>> >>, 0), "<=",
            Lin(<< <<1, U(vk, vi)>> >>, 0)),
     Constr("waitcond0+", <<vi, vj, vk>>,
            Lin(<< <<1, W(vi, vj, vk)>>, <<MAX_NUMERIC_BOUND, X(vi, vj, vk)>> >>, 0), ">=",
            Lin(<< <<-1, U(vk, vi)>> >>, 0)),
     Constr("waitcond1", <<vi, vj, vk>>,
            Lin(<< <<-1, U(vj, vi)>>, <<-MAX_NUMERIC_BOUND, X(vi, vj, vk)>> >>,
                MAX_NUMERIC_BOUND), ">=",
            Lin(<< <<1, W(vi, vj, vk)>> >>, 0)),
     Constr("waitcond1+", <<vi, vj, vk>>,
            Lin(<< <<1, W(vi, vj, vk)>>, <<MAX_NUMERIC_BOUND, X(vi, vj, vk)>> >>,
                -MAX_NUMERIC_BOUND), "<=",
            Lin(<< <<-1, U(vk, vi)>> >>, 0)) >>

WaitFamily(wkeys, ukeys, xkeys) ==
  Concat([n \in Indices(wkeys) |->
            WaitOf(wkeys[n][1], wkeys[n][2], wkeys[n][3], ukeys, xkeys)])

\* (8) Wait regression of one contingent constraint
RegressionOf(c, events, ukeys, wkeys) ==
  Concat([j \in Indices(events) |->
    Concat([n \in Indices(events) |->
      LET vi == c.s
          vk == c.e
          vj == events[j]
          vm == events[n]
      IN IF vj # vi /\ vj # vk /\ vm # vi /\ vm # vk /\ vm # vj
         THEN IF {<<vi, vj, vk>>, <<vi, vm, vk>>} \subseteq Range(wkeys)
                 /\ <<vm, vj>> \in Range(ukeys)
              THEN << Constr("regression", <<vi, vj, vk, vm>>,
                             Lin(<< <<1, W(vi, vj, vk)>>, <<-1, U(vm, vj)>> >>, 0), "<=",
                             Lin(<< <<1, W(vi, vm, vk)>> >>, 0)) >>
              ELSE << Raise("KeyError") >>
         ELSE <<>>])])

RegressionFamily(constraints, events, ukeys, wkeys) ==
  Concat([n \in Indices(constraints) |->
            IF constraints[n].ctg
            THEN RegressionOf(constraints[n], events, ukeys, wkeys)
            ELSE <<>>])

\* (7) Wait regression of a pair of distinct contingent constraints
CrossOf(c1, c2, ukeys, wkeys, xkeys) ==
  LET vi == c1.s
      vk == c1.e
      vm == c2.s
      vj == c2.e
  IN IF vm = vi THEN << Raise("AssertionError") >>
     ELSE IF <<vi, vj, vk>> \notin Range(wkeys) \/ <<vi, vj, vk>> \notin Range(xkeys)
             \/ <<vi, vm, vk>> \notin Range(wkeys) \/ <<vj, vm>> \notin Range(ukeys)
          THEN << Raise("KeyError") >>
          ELSE << Constr("regression-contingent", <<vi, vj, vk, vm>>,
                         Lin(<< <<1, W(vi, vj, vk)>>, <<1, U(vj, vm)>>,
                                <<-MAX_NUMERIC_BOUND, X(vi, vj, vk)>> >>, 0), "<=",
                         Lin(<< <<1, W(vi, vm, vk)>> >>, 0)) >>

CrossFamily(constraints, ukeys, wkeys, xkeys) ==
  Concat([n1 \in Indices(constraints) |->
    IF constraints[n1].ctg
    THEN Concat([n2 \in Indices(constraints) |->
           IF constraints[n2].ctg /\ constraints[n1].id # constraints[n2].id
           THEN CrossOf(constraints[n1], constraints[n2], ukeys, wkeys, xkeys)
           ELSE <<>>])
    ELSE <<>>])

\* Everything add_constraints_to_model does, in order, were no exception
\* raised: constraints and the exceptions met.
EmissionItems(constraints, events, ukeys, wkeys, xkeys, bkeys) ==
  NonnegFamily(ukeys)
  \o BoundsFamily(constraints, ukeys)
  \o ShortestPathFamily(events, ukeys)
  \o PrecedeFamily(bkeys, ukeys)
  \o WaitFamily(wkeys, ukeys, xkeys)
  \o RegressionFamily(constraints, events, ukeys, wkeys)
  \o CrossFamily(constraints, ukeys, wkeys, xkeys)

\* The position of the first exception of a sequence of items, or 0.
FirstRaise(items) ==
  IF \E n \in Indices(items) : IsRaise(items[n])
  THEN CHOOSE n \in Indices(items) :
         IsRaise(items[n]) /\ \A k \in 1..(n - 1) : ~IsRaise(items[k])
  ELSE 0

\* The constraints added to the solver's model before the first exception.
Emitted(items) ==
  IF FirstRaise(items) = 0 THEN items ELSE SubSeq(items, 1, FirstRaise(items) - 1)

\* The exception that ends add_constraints_to_model, or "none".
Raised(items) ==
  IF FirstRaise(items) = 0 THEN "none" ELSE items[FirstRaise(items)].raise

(***************************************************************************)
(* The solver (gurobipy, external): the value of a linear expression and   *)
(* of a constraint under an assignment of the variables, and the           *)
(* assignments of the grid that satisfy a set of constraints.              *)
(***************************************************************************)
RECURSIVE SumTerms(_, _, _)
SumTerms(terms, i, a) ==
  IF i > Len(terms) THEN 0
  ELSE terms[i][1] * a[terms[i][2]] + SumTerms(terms, i + 1, a)

Eval(lin, a) == SumTerms(lin.terms, 1, a) + lin.const

Holds(c, a) ==
  IF c.op = "<=" THEN Eval(c.lhs, a) <= Eval(c.rhs, a)
  ELSE Eval(c.lhs, a) >= Eval(c.rhs, a)

VarsOf(c) == {c.lhs.terms[n][2] : n \in Indices(c.lhs.terms)}
             \cup {c.rhs.terms[n][2] : n \in Indices(c.rhs.terms)}

\* The integers of the grid
Grid == (-GridBound)..GridBound

\* The values of the grid in the declared domain of a variable: lb and ub of
\* m.addVar for u and w, GRB.BINARY for x and b.
VarDomain(v) ==
  IF v[1] \in {"x", "b"} THEN {0, 1}
  ELSE {val \in Grid : -MAX_NUMERIC_BOUND <= val /\ val <= MAX_NUMERIC_BOUND}

\* The variables of the model in the order of their declaration.
ModelVars(ukeys, wkeys, xkeys, bkeys) ==
  [n \in Indices(ukeys) |-> U(ukeys[n][1], ukeys[n][2])]
  \o Concat([n \in Indices(wkeys) |->
       << W(wkeys[n][1], wkeys[n][2], wkeys[n][3]),
          X(wkeys[n][1], wkeys[n][2], wkeys[n][3]),
          B(wkeys[n][1], wkeys[n][2], wkeys[n][3]) >>])

\* The assignments of vars[i..] that extend the assignment a of vars[1..i-1]
\* and satisfy every constraint of constrs: a constraint is tested as soon as
\* all its variables have a value.
RECURSIVE Extend(_, _, _, _)
Extend(a, vars, i, constrs) ==
  IF i > Len(vars) THEN {a}
  ELSE
    LET v == vars[i]
        assigned == {vars[k] : k \in 1..i}
        due == {n \in Indices(constrs) :
                  v \in VarsOf(constrs[n]) /\ VarsOf(constrs[n]) \subseteq assigned}
        next == {a2 \in {(v :> val) @@ a : val \in VarDomain(v)} :
                   \A n \in due : Holds(constrs[n], a2)}
    IN UNION {Extend(a2, vars, i + 1, constrs) : a2 \in next}

\* The satisfying assignments of the grid.
Solutions(constrs, vars) == Extend(<<>>, vars, 1, constrs)

(***************************************************************************)
(* The checker object, the networks it reads and builds, and one call.     *)
(***************************************************************************)
VARIABLES
  heap,         \* the TemporalNetwork objects: reference -> constraints
  orig_tn,      \* self.orig_tn, a reference
  tn,           \* self.tn, a reference (0: not set yet)
  returned_tn,  \* the network returned by the last direct call of
                \* preprocess_network (0: none)
  rev,          \* the iteration order of the networks' event tables
  u, w, x, b,   \* the keys of self.u, self.w, self.x, self.b, in order
  m,            \* the constraints of the solver's model, in order
  exc,          \* the exception that left the last call, or "none"
  status,       \* what m.optimize() ended with in this call or, between
                \* calls, in the last one; "none" before
  sol,          \* the assignment the solver ended with, or <<>>
  cand,         \* an assignment of the declared domains under test, or <<>>
  ret,          \* what is_controllable returned last, or <<>>
  pc            \* the position of the call in progress, or "idle"

vars == <<heap, orig_tn, tn, returned_tn, rev, u, w, x, b, m, exc, status, sol, cand,
          ret, pc>>

\* The events an input network may name: "A1" is also the name of the
\* first copy of "A".
Names == {"A", "B", "A1"}

\* The bounds of the requirement and of the contingent constraints of the
\* input networks.
ReqBounds == { <<Some(0), Some(5)>>, <<Some(2), None>> }

CtgBounds == { <<Some(1), Some(2)>> }

\* The pairs of distinct events
Pairs == {p \in Names \X Names : p[1] # p[2]}

Shapes ==
  {[s |-> p[1], e |-> p[2], lb |-> bd[1], ub |-> bd[2], ctg |-> FALSE] :
     p \in Pairs, bd \in ReqBounds}
  \cup
  {[s |-> p[1], e |-> p[2], lb |-> bd[1], ub |-> bd[2], ctg |-> TRUE] :
     p \in Pairs, bd \in CtgBounds}

\* The networks of at most MaxConstraints constraints; the n-th constraint
\* is the object <<"c", n>>.
InputNetworks ==
  UNION {{[n \in 1..len |->
             IF f[n].ctg
             THEN SimpleContingentTemporalConstraint(f[n].s, f[n].e, f[n].lb, f[n].ub,
                                                     <<"c", n>>)
             ELSE SimpleTemporalConstraint(f[n].s, f[n].e, f[n].lb, f[n].ub,
                                           <<"c", n>>)] :
           f \in [1..len -> Shapes]} : len \in 0..MaxConstraints}

\* The two networks of the textbook example.
NetDC ==
  << SimpleContingentTemporalConstraint("A", "C", Some(1), Some(10), <<"c", 1>>),
     SimpleTemporalConstraint("A", "B", Some(0), Some(5), <<"c", 2>>) >>

NetNotDC ==
  Append(NetDC, SimpleTemporalConstraint("C", "B", Some(0), Some(0), <<"c", 3>>))

SolveNetworks == {NetDC, NetNotDC}

\* DCCheckerMILP(tn), for the networks of a set
InitOver(networks) ==
  /\ heap \in {[r \in 1..3 |-> IF r = 1 THEN net ELSE <<>>] : net \in networks}
  /\ orig_tn = 1
  /\ tn = 0
  /\ returned_tn = 0
  /\ rev \in BOOLEAN
  /\ u = <<>> /\ w = <<>> /\ x = <<>> /\ b = <<>>
  /\ m = <<>>
  /\ exc = "none"
  /\ status = "none"
  /\ sol = <<>>
  /\ cand = <<>>
  /\ ret = <<>>
  /\ pc = "idle"

Init == InitOver(InputNetworks)

InitSolve == InitOver(SolveNetworks)

\* (a slip: network = tn, the network passed in)
TemporalNetworkAlias(tnref, fresh) == tnref

\* network = TemporalNetwork(): a new object, not the one passed in.
TemporalNetwork(tnref, fresh) == fresh

\* The heap after preprocess_network(tn) with a new object at fresh.
PreprocessInto(h, tnref, fresh) ==
  LET network == TemporalNetwork(tnref, fresh)
      h0 == [h EXCEPT ![fresh] = <<>>]
  IN [h0 EXCEPT ![network] = add_constraints(h0[network], preprocess_network(h[tnref]))]

\* A caller calls is_controllable().
CallIsControllable ==
  /\ pc = "idle"
  /\ pc' = "preprocess"
  /\ ret' = <<>>
  /\ exc' = "none"
  /\ status' = "none"
  /\ sol' = <<>>
  /\ UNCHANGED <<heap, orig_tn, tn, returned_tn, rev, u, w, x, b, m, cand>>

\* A caller calls preprocess_network(self.orig_tn) itself.
CallPreprocessNetwork ==
  /\ pc = "idle"
  /\ heap' = PreprocessInto(heap, orig_tn, 3)
  /\ returned_tn' = TemporalNetwork(orig_tn, 3)
  /\ UNCHANGED <<orig_tn, tn, rev, u, w, x, b, m, exc, status, sol, cand, ret, pc>>

\* solve_dc: self.tn = self.preprocess_network(self.orig_tn); m = gp.Model()
Preprocess ==
  /\ pc = "preprocess"
  /\ heap' = PreprocessInto(heap, orig_tn, 2)
  /\ tn' = TemporalNetwork(orig_tn, 2)
  /\ m' = <<>>
  /\ pc' = "add_variables"
  /\ UNCHANGED <<orig_tn, returned_tn, rev, u, w, x, b, exc, status, sol, cand, ret>>

\* solve_dc: self.add_variables_to_model(m)
AddVariables ==
  /\ pc = "add_variables"
  /\ LET events == get_events(heap[tn], rev)
         constraints == get_constraints(heap[tn])
     IN /\ u' = UKeys(events)
        /\ w' = WKeys(constraints, events)
        /\ x' = WKeys(constraints, events)
        /\ b' = WKeys(constraints, events)
  /\ pc' = "add_constraints"
  /\ UNCHANGED <<heap, orig_tn, tn, returned_tn, rev, m, exc, status, sol, cand, ret>>

\* solve_dc: self.add_constraints_to_model(m); a KeyError or an
\* AssertionError ends it (solve_dc catches neither).
AddConstraints ==
  /\ pc = "add_constraints"
  /\ LET items == EmissionItems(get_constraints(heap[tn]), get_events(heap[tn], rev),
                                u, w, x, b)
     IN /\ m' = Emitted(items)
        /\ exc' = Raised(items)
        /\ pc' = IF Raised(items) = "none" THEN "optimize" ELSE "raised"
  /\ UNCHANGED <<heap, orig_tn, tn, returned_tn, rev, u, w, x, b, status, sol, cand, ret>>

\* The exception leaves solve_dc and is_controllable.
Propagate ==
  /\ pc = "raised"
  /\ pc' = "idle"
  /\ m' = <<>>
  /\ UNCHANGED <<heap, orig_tn, tn, returned_tn, rev, u, w, x, b, exc, status, sol, cand,
                 ret>>

\* What m.optimize() may end with, whatever the model: a status, or a
\* GurobiError.
SolverOutcomes == {"OPTIMAL", "INFEASIBLE", "TIME_LIMIT", "NUMERIC", "GurobiError"}

\* solve_dc: m.optimize(), the solver being any solver.
Optimize ==
  /\ pc = "optimize"
  /\ status' \in SolverOutcomes
  /\ pc' = "status"
  /\ UNCHANGED <<heap, orig_tn, tn, returned_tn, rev, u, w, x, b, m, exc, sol, cand, ret>>

\* solve_dc: m.optimize(), the solver deciding the model over the grid: it
\* ends OPTIMAL with one of the satisfying assignments, or INFEASIBLE when
\* there is none.
OptimizeSearch ==
  /\ pc = "optimize"
  /\ LET found == Solutions(m, ModelVars(u, w, x, b))
     IN \/ /\ found # {}
           /\ sol' \in found
           /\ status' = "OPTIMAL"
        \/ /\ found = {}
           /\ sol' = <<>>
           /\ status' = "INFEASIBLE"
  /\ pc' = "status"
  /\ UNCHANGED <<heap, orig_tn, tn, returned_tn, rev, u, w, x, b, m, exc, cand, ret>>

\* The corners of the declared domain of the continuous variables.
Corners == {-MAX_NUMERIC_BOUND, 0, MAX_NUMERIC_BOUND}

\* The assignments that give every u a corner of its domain, every b one of
\* its two values, and 0 to every w and x.
CornerAssignments(ukeys, wkeys, xkeys, bkeys) ==
  {fu @@ fb @@ fx @@ fw :
     fu \in [{U(k[1], k[2]) : k \in Range(ukeys)} -> Corners],
     fb \in [{B(k[1], k[2], k[3]) : k \in Range(bkeys)} -> {0, 1}],
     fx \in [{X(k[1], k[2], k[3]) : k \in Range(xkeys)} -> {0}],
     fw \in [{W(k[1], k[2], k[3]) : k \in Range(wkeys)} -> {0}]}

\* The model built, one assignment of the declared domains is put to its
\* constraints.
Probe ==
  /\ pc = "optimize"
  /\ cand' \in CornerAssignments(u, w, x, b)
  /\ pc' = "probed"
  /\ UNCHANGED <<heap, orig_tn, tn, returned_tn, rev, u, w, x, b, m, exc, status, sol, ret>>

\* solve_dc, from the test of m.status to its end: False, True, or None
\* after a GurobiError was caught and printed.
SolveDcResult(st) ==
  IF st = "GurobiError" THEN "None"
  ELSE IF st = "INFEASIBLE" THEN "False"
  ELSE "True"

\* is_controllable: return res, None
Return ==
  /\ pc = "status"
  /\ ret' = <<SolveDcResult(status), "None">>
  /\ pc' = "idle"
  /\ m' = <<>>
  /\ UNCHANGED <<heap, orig_tn, tn, returned_tn, rev, u, w, x, b, exc, status, sol, cand>>

Next ==
  \/ CallIsControllable
  \/ CallPreprocessNetwork
  \/ Preprocess
  \/ AddVariables
  \/ AddConstraints
  \/ Propagate
  \/ Optimize
  \/ Return

Spec == Init /\ [][Next]_vars

NextSolve ==
  \/ CallIsControllable
  \/ CallPreprocessNetwork
  \/ Preprocess
  \/ AddVariables
  \/ AddConstraints
  \/ OptimizeSearch
  \/ Probe
  \/ Return

SpecSolve == InitSolve /\ [][NextSolve]_vars

(***************************************************************************)
(* What the claims speak of                                                *)
(***************************************************************************)
\* The contingent constraints of a network
Contingent(network) == {c \in Range(network) : c.ctg}

\* The network the current call built, once built.
Normalized == tn # 0

\* The emission of the current call is over: complete (pc = "optimize") or
\* ended by an exception (pc = "raised").
Encoded == pc \in {"optimize", "raised"}

\* The eight families of constraints, by the names the source gives them.
Families ==
  << {"nonneg"},
     {"upperbound", "lowerbound", "u >= U", "u >= -L"},
     {"shortestpath"},
     {"precede-b0", "precede-b1-a", "precede-b1-b"},
     {"wait", "wait<ub"},
     {"waitcond0", "waitcond0+", "waitcond1", "waitcond1+"},
     {"regression"},
     {"regression-contingent"} >>

\* The number of constraints of each family in a sequence of constraints.
FamilyCounts(constrs) ==
  [f \in Indices(Families) |->
     Cardinality({n \in Indices(constrs) : constrs[n].name \in Families[f]})]

\* The distance graph of a network: the weight of the lightest edge from
\* vi to vj, <<>> when there is none.  A constraint (s, e, lb, ub) gives
\* s -> e of weight ub and e -> s of weight -lb.
EdgeWeights(network, vi, vj) ==
  {network[n].ub[1] : n \in {k \in Indices(network) :
       network[k].s = vi /\ network[k].e = vj /\ network[k].ub # None}}
  \cup
  {-network[n].lb[1] : n \in {k \in Indices(network) :
       network[k].e = vi /\ network[k].s = vj /\ network[k].lb # None}}

MinOf(S) == CHOOSE v \in S : \A o \in S : v <= o

\* Distances are <<>> (no path) or <<d>>.
DistMin(d1, d2) ==
  IF d1 = None THEN d2 ELSE IF d2 = None THEN d1
  ELSE IF d1[1] <= d2[1] THEN d1 ELSE d2

DistPlus(d1, d2) == IF d1 = None \/ d2 = None THEN None ELSE Some(d1[1] + d2[1])

DirectDistances(network) ==
  [p \in Range(EventList(network, 1, <<>>)) \X Range(EventList(network, 1, <<>>)) |->
     IF EdgeWeights(network, p[1], p[2]) = {}
     THEN (IF p[1] = p[2] THEN Some(0) ELSE None)
     ELSE DistMin(Some(MinOf(EdgeWeights(network, p[1], p[2]))),
                  IF p[1] = p[2] THEN Some(0) ELSE None)]

\* Floyd-Warshall over the events nodes[k..].
RECURSIVE FloydWarshall(_, _, _)
FloydWarshall(d, nodes, k) ==
  IF k > Len(nodes) THEN d
  ELSE FloydWarshall(
         [p \in DOMAIN d |->
            DistMin(d[p], DistPlus(d[<<p[1], nodes[k]>>], d[<<nodes[k], p[2]>>]))],
         nodes, k + 1)

Distances(network) ==
  FloydWarshall(DirectDistances(network), EventList(network, 1, <<>>), 1)

NegativeCycle(network) ==
  \E ev \in Range(EventList(network, 1, <<>>)) :
     Distances(network)[<<ev, ev>>][1] < 0

\* The constraints of a network say the same of the events of orig as the
\* constraints of orig: both have a negative cycle, or neither has and the
\* distance of every ordered pair of events of orig is the same.
SameDistances(orig, network) ==
  /\ NegativeCycle(orig) <=> NegativeCycle(network)
  /\ ~NegativeCycle(orig) =>
       \A p \in DOMAIN Distances(orig) :
          /\ p \in DOMAIN Distances(network)
          /\ Distances(network)[p] = Distances(orig)[p]

\* Every constraint has source # sink, every event is the sink of at most
\* one contingent constraint, the contingent bounds are present.
StructurallyValid(network) ==
  /\ \A c \in Range(network) : c.s # c.e
  /\ \A c1, c2 \in Contingent(network) : c1.id # c2.id => c1.e # c2.e
  /\ \A c \in Contingent(network) : c.lb # None /\ c.ub # None

(***************************************************************************)
(* C2                                                                      *)
(***************************************************************************)
\* C2: in the network preprocess_network returns, no contingent
\* constraint's source is the sink of a contingent constraint, and no two
\* distinct contingent constraints have the same source.
C2_NormalizedPreconditions ==
  Normalized =>
    /\ \A c1, c2 \in Contingent(heap[tn]) : c1.s # c2.e
    /\ \A c1, c2 \in Contingent(heap[tn]) : c1.id # c2.id => c1.s # c2.s

(***************************************************************************)
(* C3                                                                      *)
(***************************************************************************)
\* C3: is_controllable returns True only after a feasible/optimal status,
\* False only after an infeasible status, and something that is neither
\* after a solver error or a time-out.
C3_FailuresSurfacedDistinctly ==
  ret # <<>> =>
    /\ ret[1] = "True" => status = "OPTIMAL"
    /\ ret[1] = "False" => status = "INFEASIBLE"
    /\ status \in {"TIME_LIMIT", "NUMERIC", "GurobiError"} => ret[1] \notin {"True", "False"}

(***************************************************************************)
(* C4                                                                      *)
(***************************************************************************)
\* C4: on a structurally valid input network no call ends with an
\* exception: the assertion of the cross-contingent regression family holds
\* and no lookup in self.u, self.w, self.x fails.
C4_EncodingNeverFails ==
  StructurallyValid(heap[orig_tn]) => exc = "none"

(***************************************************************************)
(* C5                                                                      *)
(***************************************************************************)
\* C5: the distance between any two events of the input network is the
\* same in the distance graph of the network preprocess_network returns as
\* in the distance graph of the input network.
C5_DistancesPreserved ==
  Normalized => SameDistances(heap[orig_tn], heap[tn])

(***************************************************************************)
(* C1                                                                      *)
(***************************************************************************)
\* C1: for the network of the contingent (A,C,[1,10]) and the requirement
\* (A,B,[0,5]) the emitted constraints have a satisfying assignment (the
\* solver ends OPTIMAL with one, the verdict is True); with the requirement
\* (C,B,[0,0]) added they have none (INFEASIBLE, the verdict is False).
C1_TextbookVerdicts ==
  /\ status # "none" =>
       /\ heap[orig_tn] = NetDC => status = "OPTIMAL"
       /\ heap[orig_tn] = NetNotDC => status = "INFEASIBLE"
  /\ (pc = "status" /\ status = "OPTIMAL") =>
       /\ DOMAIN sol = Range(ModelVars(u, w, x, b))
       /\ \A n \in Indices(m) : Holds(m[n], sol)
  /\ ret # <<>> =>
       /\ heap[orig_tn] = NetDC => ret = <<"True", "None">>
       /\ heap[orig_tn] = NetNotDC => ret = <<"False", "None">>

\* The second network has been given its verdict (the first one reaches
\* the first branch of OptimizeSearch, the only network that does).
C1_Witness ==
  /\ heap[orig_tn] = NetNotDC
  /\ status = "INFEASIBLE"
  /\ ret = <<"False", "None">>

(***************************************************************************)
(* C6                                                                      *)
(***************************************************************************)
\* The constraints of the model that are about u(s,e) and u(e,s) alone.
AboutPair(c) ==
  {n \in Indices(m) : VarsOf(m[n]) \subseteq {U(c.s, c.e), U(c.e, c.s)}}

\* The constraints about hold when u(s,e) = a and u(e,s) = bv.
PairHolds(about, c, a, bv) ==
  \A n \in about : Holds(m[n], (U(c.s, c.e) :> a) @@ (U(c.e, c.s) :> bv))

\* No other constraint of the network is about the two events of c.
AloneOnPair(network, c) ==
  \A o \in Range(network) : o.id # c.id => {o.s, o.e} # {c.s, c.e}

\* C6: an assignment that satisfies the emitted constraints gives u(s,e) = ub
\* and u(e,s) = -lb for every contingent (s,e,lb,ub) of the normalized
\* network; of a requirement constraint the model only asks u(s,e) <= ub
\* (ub present) and u(e,s) <= -lb (lb present), besides
\* u(s,e) + u(e,s) >= 0.
C6_ContingentRigid ==
  pc = "optimize" =>
    /\ \A c \in Contingent(heap[tn]) :
         LET about == AboutPair(c)
         IN \A a, bv \in Grid :
               PairHolds(about, c, a, bv) => a = c.ub[1] /\ bv = -c.lb[1]
    /\ \A c \in Range(heap[tn]) \ Contingent(heap[tn]) :
         AloneOnPair(heap[tn], c) =>
           LET about == AboutPair(c)
           IN \A a, bv \in Grid :
                 PairHolds(about, c, a, bv) <=>
                   /\ a + bv >= 0
                   /\ c.ub # None => a <= c.ub[1]
                   /\ c.lb # None => bv <= -c.lb[1]

\* The model holds a contingent constraint, with the values that satisfy
\* what the model says of its pair, and a requirement constraint alone on
\* its pair, with a value of u(s,e) below its upper bound.
C6_Witness ==
  /\ pc = "optimize"
  /\ \E c \in Contingent(heap[tn]) : PairHolds(AboutPair(c), c, c.ub[1], -c.lb[1])
  /\ \E c \in Range(heap[tn]) \ Contingent(heap[tn]) :
       /\ AloneOnPair(heap[tn], c)
       /\ c.ub # None /\ c.lb # None
       /\ PairHolds(AboutPair(c), c, c.ub[1] - 1, -c.lb[1])

(***************************************************************************)
(* C7                                                                      *)
(***************************************************************************)
\* C7: no step of a call changes the input network: it keeps its
\* constraints (source, sink, bounds, kind, identity), hence its events.
C7_InputUnchanged ==
  [][/\ orig_tn' = orig_tn
     /\ get_constraints(heap'[orig_tn]) = get_constraints(heap[orig_tn])
     /\ EventList(heap'[orig_tn], 1, <<>>) = EventList(heap[orig_tn], 1, <<>>)]_vars

\* Both kinds of call have been made, and the copies and equality
\* constraints are in the two new networks, not in the input.
C7_Witness ==
  /\ ret # <<>>
  /\ returned_tn # 0
  /\ \E c \in Range(heap[tn]) : c.id[1] = "equality"
  /\ \E c \in Range(heap[returned_tn]) : c.id[1] = "equality"
  /\ \A c \in Range(heap[orig_tn]) : c.id[1] = "c"

(***************************************************************************)
(* C8                                                                      *)
(***************************************************************************)
\* The orders in which the constraints of a network may be held.
Reorderings(network) ==
  {[n \in Indices(network) |-> network[p[n]]] : p \in Permutations(Indices(network))}

\* The events and the emission of a call on a network.
RunEvents(network, r) == get_events(preprocess_network(network), r)

RunItems(network, r) ==
  LET constraints == preprocess_network(network)
      events == get_events(constraints, r)
  IN EmissionItems(constraints, events, UKeys(events), WKeys(constraints, events),
                   WKeys(constraints, events), WKeys(constraints, events))

\* C8: a run on the same network with its constraints and events in
\* another order gives as many events and as many constraints of each
\* family as this run.
C8_OrderIndependentCounts ==
  Encoded =>
    \A other \in Reorderings(heap[orig_tn]) : \A r \in BOOLEAN :
       /\ Len(RunEvents(other, r)) = Len(get_events(heap[tn], rev))
       /\ FamilyCounts(Emitted(RunItems(other, r))) = FamilyCounts(m)

(***************************************************************************)
(* C9                                                                      *)
(***************************************************************************)
\* The constraints of the model of a name and a key
Named(name, key) == {n \in Indices(m) : m[n].name = name /\ m[n].key = key}

\* C9: whatever values of their domain the u have, the precede constraints
\* of the branch that b does not select hold: precede-b0 when b = 1,
\* precede-b1-a and precede-b1-b when b = 0.
C9_InactiveBranchVacuous ==
  pc = "probed" =>
    \A k \in Range(b) :
       /\ cand[B(k[1], k[2], k[3])] = 1 =>
            \A n \in Named("precede-b0", k) : Holds(m[n], cand)
       /\ cand[B(k[1], k[2], k[3])] = 0 =>
            \A n \in Named("precede-b1-a", k) \cup Named("precede-b1-b", k) :
               Holds(m[n], cand)

(***************************************************************************)
(* C10                                                                     *)
(***************************************************************************)
\* C10: the model holds exactly one constraint nonneg for each unordered
\* pair of distinct events, u(i,j) + u(j,i) >= 0, and no other nonneg.
C10_OneNonnegPerPair ==
  Encoded =>
    LET events == Range(get_events(heap[tn], rev))
        nonneg == {n \in Indices(m) : m[n].name = "nonneg"}
    IN /\ \A vi, vj \in events :
            vi # vj =>
              Cardinality({n \in nonneg : m[n].key \in {<<vi, vj>>, <<vj, vi>>}}) = 1
       /\ \A n \in nonneg :
            /\ m[n].key[1] \in events /\ m[n].key[2] \in events
            /\ m[n].key[1] # m[n].key[2]
            /\ m[n].lhs = Lin(<< <<1, U(m[n].key[1], m[n].key[2])>>,
                                 <<1, U(m[n].key[2], m[n].key[1])>> >>, 0)
            /\ m[n].op = ">="
            /\ m[n].rhs = Lin(<<>>, 0)

\* A model of four events, one of them a copy, read in the reverse order,
\* with its six nonneg constraints.
C10_Witness ==
  /\ pc = "optimize"
  /\ rev
  /\ Len(get_events(heap[tn], rev)) = 4
  /\ \E c \in Range(heap[tn]) : c.id[1] = "equality"
  /\ Cardinality({n \in Indices(m) : m[n].name = "nonneg"}) = 6

====
